---- MODULE Spec2Model ----
(***************************************************************************)
(* Stock-bidding application: the client state held by AuctionProvider     *)
(* (context/AuctionContext.tsx), the bid form (BidForm), the order book    *)
(* (OrderBook) and the document store behind FirebaseService.              *)
(*                                                                         *)
(* Money is counted in paise (1/100 rupee) so that 151.99 is 15199.        *)
(* Time is counted in milliseconds, as Date.now() does.                    *)
(* Every asynchronous handler is cut at its awaits: a call in flight keeps *)
(* the values its closure captured when it was invoked.                    *)
(***************************************************************************)
EXTENDS Integers, Sequences, FiniteSets, TLC

\* ---------------------------------------------------------------- bounds
NumUsers == 2            \* accounts that may sign in
MaxCalls == 2            \* handler invocations that may be in flight at once
MaxBids  == 2            \* placements that get as far as the store insert
MaxBook  == 2            \* length of the freely chosen bid lists given to the panels
LongKinds == 2           \* patterns of the long bid lists given to the panels
MaxTimeUps == 2          \* calls of onTimeUp that are counted for one end time

Users == 1..NumUsers
Slots == 1..MaxCalls
NoUser == 0

\* orders a caller may type into the form: amount (paise), side, quantity
Orders == { <<15100, "buy", 10>>, <<15199, "sell", 5>>, <<15000, "sell", 10>> }

\* instants at which something happens: the start, and the end of an auction
\* created at the start
Instants == {0, 300000}

\* ------------------------------------------------------ program constants
InitialCurrentPrice == 15000     \* initialState.stock.currentPrice = 150.00
MinIncrement        == 100       \* <BidForm minIncrement={1.0}>
AuctionDurationSec  == 300       \* endTime: Date.now() + (300 * 1000)
MaxQuantity         == 10000     \* qty > 10000
MaxAmount           == 100000000 \* amount > 1000000 (rupees)
MaxTotalValue       == 50000000  \* totalValue > 50000000 (rupees)
OrderBookDepth      == 10        \* OrderBook: .slice(0, 10)
LeaderboardSize     == 15        \* TopBids: .slice(0, 15)
PanelDepth          == 5         \* OrderBook.tsx: .slice(0, 5)
WarningSeconds      == 300       \* Timer: remaining <= 300
CriticalSeconds     == 60        \* Timer: remaining <= 60
LocalDigits         == 10        \* formatPhoneNumber: formatted.length === 10
MinPhoneDigits      == 10        \* formatPhoneNumber: formatted.length < 10
MaxPhoneDigits      == 15        \* formatPhoneNumber: formatted.length > 15

\* ---------------------------------------------------------- error texts
\* A message is the sequence of its words; includes() looks for a word.
MsgPermissionDenied == <<"Missing", "or", "insufficient", "permissions">>
MsgUnavailable      == <<"unavailable">>
MsgNotActive        == <<"Auction", "is", "not", "active">>
MsgNotFound         == <<"Bid", "not", "found">>
MsgNotOwner         == <<"You", "can", "only", "cancel", "your", "own", "bids">>
MsgNotCancellable   == <<"Bid", "cannot", "be", "cancelled">>
MsgMinimumBid       == <<"Minimum", "bid", "is">>
MsgInvalidPrice     == <<"Please", "enter", "a", "valid", "price">>
MsgInvalidQuantity  == <<"Please", "enter", "a", "valid", "quantity">>
MsgMaxQuantity      == <<"Maximum", "quantity", "is", "10,000", "shares">>
MsgMaxBid           == <<"Maximum", "bid", "is", "10,00,000">>
MsgMaxTotal         == <<"Total", "order", "value", "cannot", "exceed", "5", "crores">>
NoError             == <<>>

StoreErrors == {MsgPermissionDenied, MsgUnavailable}

\* String.prototype.includes, on words
includes(msg, word) == \E i \in 1..Len(msg) : msg[i] = word

\* FirebaseService.addBid catch: `Failed to place bid: ${error.message}`
addBidError(msg) == <<"Failed", "to", "place", "bid">> \o msg

\* ------------------------------------------------------------- variables
VARIABLES
    now,            \* Date.now()
    user,           \* state.user (uid or NoUser)
    auction,        \* state.auction
    currentPrice,   \* state.stock.currentPrice
    bids,           \* state.bids
    highestBid,     \* state.highestBid
    userProfitLoss, \* state.userProfitLoss
    invoiceModal,   \* state.invoiceModal
    storeBids,      \* collection 'bids' of the store, in insertion order
    userDocs,       \* collection 'users' of the store
    auctionDoc,     \* document auctions/AAPL of the store
    dispatched,     \* invoice dispatches made so far
    calls,          \* handler invocations in flight: position, captured values
    lastResult,     \* what the step just taken returned to the caller of a handler
    view,           \* what the last render of a bid panel produced from state.bids
    timer,          \* the mounted Timer: its props and its state
    whatsapp        \* the WhatsAppService: its configuration and its last sendInvoice

vars == <<now, user, auction, currentPrice, bids, highestBid, userProfitLoss,
          invoiceModal, storeBids, userDocs,
          auctionDoc, dispatched, calls, lastResult, view, timer, whatsapp>>

clientVars == <<user, auction, currentPrice, bids, highestBid, userProfitLoss,
                invoiceModal>>
storeVars  == <<storeBids, userDocs, auctionDoc>>

NoAuction == [id |-> "none", endTime |-> 0, isActive |-> FALSE]
NoDoc     == [exists |-> FALSE, profitLoss |-> 0, activeBids |-> 0]
NoId      == [kind |-> "none", n |-> 0]
NoModal   == [isOpen |-> FALSE, invoice |-> NoId]
NoBid     == [id |-> NoId]

StoreId(n) == [kind |-> "doc", n |-> n]         \* docRef.id
LocalId(t) == [kind |-> "local", n |-> t]       \* `local-${Date.now()}`

IdleCall == [op |-> "none", pc |-> "idle", uid |-> NoUser, amount |-> 0,
             type |-> "buy", quantity |-> 0, basePL |-> 0, price |-> 0,
             bidId |-> NoId, profitLoss |-> 0, cause |-> NoError]

NoResult == [op |-> "none", outcome |-> "none", error |-> NoError,
             uid |-> NoUser, bidId |-> NoId, delivery |-> "none"]

\* the result a handler gives its caller: resolved ("success"), returned
\* without acting ("invalid") or thrown ("rejected", "error"); with it the
\* user the handler acted for, the bid it was about and, for a placement,
\* what became of the delivery of its invoice
Result(op, outcome, msg, uid, bidId) ==
    [op |-> op, outcome |-> outcome, error |-> msg, uid |-> uid, bidId |-> bidId,
     delivery |-> "none"]

\* what whatsappService.sendInvoice may answer: delivered, { success: false },
\* or an exception inside it, which it catches and answers as a failure
Deliveries == {"sent", "failed", "exception"}

\* nothing rendered yet
NoView == [kind |-> "none", again |-> FALSE, out |-> <<>>]

\* registered phone number of each account (user 1 has one, the others none)
phoneNumber(u) == IF u = 1 THEN "+15551234567" ELSE ""


\* --------------------------------------------------- pure helpers (code)
Max(a, b) == IF a >= b THEN a ELSE b

\* AuctionProvider.getTimeRemaining, evaluated on auction `a` at time `t`
getTimeRemaining(a, t) ==
    IF a = NoAuction \/ ~a.isActive THEN 0
    ELSE Max(0, (a.endTime - t) \div 1000)

\* isAuctionActive looking at the flag only, not at the time that remains
isAuctionActive_FlagOnly(a, t) ==
    a # NoAuction /\ a.isActive

\* AuctionProvider.isAuctionActive
isAuctionActive(a, t) ==
    a # NoAuction /\ a.isActive /\ getTimeRemaining(a, t) > 0

\* BidForm: const minBid = highestBid ? highestBid.amount + minIncrement
\*                                    : currentPrice + minIncrement
minBid(hb, price) ==
    IF hb # NoBid THEN hb.amount + MinIncrement ELSE price + MinIncrement

\* BidForm.validateBid: amount * qty > 50000000, with the amount in paise and
\* the ceiling in rupees; the product is compared piecewise so that no
\* intermediate value leaves the 32-bit integers of the checker
exceedsTotal(amount, qty) ==
    LET ar == amount \div 100
        ap == amount % 100
    IN  IF ar > MaxTotalValue \div qty THEN TRUE
        ELSE IF MaxTotalValue - ar * qty >= MaxQuantity THEN FALSE
        ELSE ap * qty > 100 * (MaxTotalValue - ar * qty)

\* BidForm.validateBid: the validation message, NoError when the bid is valid
validateBid(amount, qty, floor) ==
    IF amount <= 0 THEN MsgInvalidPrice
    ELSE IF qty <= 0 THEN MsgInvalidQuantity
    ELSE IF qty > MaxQuantity THEN MsgMaxQuantity
    ELSE IF amount < floor THEN MsgMinimumBid
    ELSE IF amount > MaxAmount THEN MsgMaxBid
    ELSE IF exceedsTotal(amount, qty) THEN MsgMaxTotal
    ELSE NoError

\* profit/loss with the two sides exchanged
profitLossOf_Swapped(type, price, amount, quantity) ==
    IF type = "buy" THEN (amount - price) * quantity
    ELSE (price - amount) * quantity

\* placeBid: profit/loss of a bid against the current price
profitLossOf(type, price, amount, quantity) ==
    IF type = "buy" THEN (price - amount) * quantity
    ELSE (amount - price) * quantity

\* the catch of placeBid looking for the error code instead of the message text
isPermissionError_ByCode(msg) == includes(msg, "permission-denied")

\* the catch of placeBid taking every failure of the insert for a permission error
isPermissionError_Always(msg) == TRUE

\* placeBid catch: error.message.includes('permissions')
isPermissionError(msg) == includes(msg, "permissions")

\* auctionReducer ADD_BID: [payload, ...bids].sort((a, b) => b.timestamp - a.timestamp)
\* Array.prototype.sort is stable.
RECURSIVE insertByTimestampDesc(_, _)
insertByTimestampDesc(x, s) ==
    IF s = <<>> THEN <<x>>
    ELSE IF Head(s).timestamp >= x.timestamp
         THEN <<Head(s)>> \o insertByTimestampDesc(x, Tail(s))
         ELSE <<x>> \o s

RECURSIVE sortByTimestampDesc(_)
sortByTimestampDesc(s) ==
    IF s = <<>> THEN <<>>
    ELSE insertByTimestampDesc(s[Len(s)], sortByTimestampDesc(SubSeq(s, 1, Len(s) - 1)))

ADD_BID(list, bid) == sortByTimestampDesc(<<bid>> \o list)

\* auctionReducer UPDATE_BID with updates = { status }
UPDATE_BID(list, id, status) ==
    [i \in 1..Len(list) |->
        IF list[i].id = id THEN [list[i] EXCEPT !.status = status] ELSE list[i]]

\* SET_INVOICE_MODAL opening the modal on whatever invoice it held before
SET_INVOICE_MODAL_KeepOld(modal, isOpen, invoice) ==
    [isOpen |-> isOpen, invoice |-> modal.invoice]

\* auctionReducer SET_INVOICE_MODAL
SET_INVOICE_MODAL(modal, isOpen, invoice) ==
    [isOpen |-> isOpen, invoice |-> IF invoice # NoId THEN invoice ELSE modal.invoice]

\* cancelBid without the comparison of bidData.userId with the requester
cancelChecks_AnyUser(docs, bidId, uid) ==
    IF ~(bidId.kind = "doc" /\ bidId.n \in 1..Len(docs)) THEN MsgNotFound
    ELSE IF docs[bidId.n].status # "active" THEN MsgNotCancellable
    ELSE NoError

\* FirebaseService.cancelBid: the checks made on the document read by getDoc
cancelChecks(docs, bidId, uid) ==
    IF ~(bidId.kind = "doc" /\ bidId.n \in 1..Len(docs)) THEN MsgNotFound
    ELSE IF docs[bidId.n].userId # uid THEN MsgNotOwner
    ELSE IF docs[bidId.n].status # "active" THEN MsgNotCancellable
    ELSE NoError

\* cancelBid removing the document instead of marking it
cancelWrite_Delete(docs, n) == SubSeq(docs, 1, n - 1) \o SubSeq(docs, n + 1, Len(docs))

\* FirebaseService.cancelBid: updateDoc(bidRef, { status: 'cancelled', ... })
cancelWrite(docs, n) == [docs EXCEPT ![n].status = "cancelled"]

\* FirebaseService.updateUserStats: updateDoc(userDocRef, { [field]: increment(value) })
\* updateDoc fails on a missing document; the failure is caught and logged.
updateUserStats(docs, uid, value) ==
    IF docs[uid].exists
    THEN [docs EXCEPT ![uid].activeBids = @ + value]
    ELSE docs

\* FirebaseService.updateUserProfitLoss (when it does not throw)
updateUserProfitLoss(docs, uid, amount) ==
    IF ~docs[uid].exists
    THEN [docs EXCEPT ![uid] = [exists |-> TRUE, profitLoss |-> amount,
                                activeBids |-> 0]]
    ELSE [docs EXCEPT ![uid].profitLoss = @ + amount]

\* FirebaseService.subscribeToBids: the array built from a snapshot of the
\* query orderBy('timestamp', 'desc'); the status field is not copied.
RECURSIVE snapshotOf(_, _)
snapshotOf(docs, n) ==
    IF n = 0 THEN <<>>
    ELSE insertByTimestampDesc([id |-> StoreId(n), userId |-> docs[n].userId,
                     amount |-> docs[n].amount, quantity |-> 1,
                     type |-> docs[n].type, timestamp |-> docs[n].timestamp,
                     status |-> "unset"],
                    snapshotOf(docs, n - 1))

subscribeToBids(docs) == snapshotOf(docs, Len(docs))

\* what the subscription hands to its callback for the present store
streamBids == subscribeToBids(storeBids)

\* OrderBook: bids.filter(bid => !bid.status || bid.status === 'active')
activeBids(list) == SelectSeq(list, LAMBDA b : b.status = "unset" \/ b.status = "active")

\* Array.prototype.sort((a, b) => b.amount - a.amount): stable, descending
RECURSIVE insertByAmountDesc(_, _)
insertByAmountDesc(x, s) ==
    IF s = <<>> THEN <<x>>
    ELSE IF Head(s).amount >= x.amount
         THEN <<Head(s)>> \o insertByAmountDesc(x, Tail(s))
         ELSE <<x>> \o s

RECURSIVE sortByAmountDesc(_)
sortByAmountDesc(s) ==
    IF s = <<>> THEN <<>>
    ELSE insertByAmountDesc(s[Len(s)], sortByAmountDesc(SubSeq(s, 1, Len(s) - 1)))

\* Array.prototype.sort((a, b) => a.amount - b.amount): stable, ascending
RECURSIVE insertByAmountAsc(_, _)
insertByAmountAsc(x, s) ==
    IF s = <<>> THEN <<x>>
    ELSE IF Head(s).amount <= x.amount
         THEN <<Head(s)>> \o insertByAmountAsc(x, Tail(s))
         ELSE <<x>> \o s

RECURSIVE sortByAmountAsc(_)
sortByAmountAsc(s) ==
    IF s = <<>> THEN <<>>
    ELSE insertByAmountAsc(s[Len(s)], sortByAmountAsc(SubSeq(s, 1, Len(s) - 1)))

\* Array.prototype.slice(0, n)
slice(s, n) == SubSeq(s, 1, IF Len(s) < n THEN Len(s) ELSE n)

\* OrderBook: buy orders, highest price first
buyBids(list) ==
    slice(sortByAmountDesc(SelectSeq(activeBids(list), LAMBDA b : b.type = "buy")),
          OrderBookDepth)

\* OrderBook: sell orders, lowest price first
sellBids(list) ==
    slice(sortByAmountAsc(SelectSeq(activeBids(list), LAMBDA b : b.type = "sell")),
          OrderBookDepth)


\* bid.quantity || 1 (an absent quantity is 0 here)
quantityOrOne(b) == IF b.quantity = 0 THEN 1 ELSE b.quantity

\* list.reduce((sum, bid) => sum + (bid.quantity || 1), 0)
RECURSIVE totalVolumeOf(_)
totalVolumeOf(list) ==
    IF list = <<>> THEN 0
    ELSE quantityOrOne(Head(list)) + totalVolumeOf(Tail(list))

\* list.reduce((sum, bid) => sum + (bid.amount * (bid.quantity || 1)), 0)
RECURSIVE totalValueOf(_)
totalValueOf(list) ==
    IF list = <<>> THEN 0
    ELSE Head(list).amount * quantityOrOne(Head(list)) + totalValueOf(Tail(list))

\* new Set(list.map(bid => bid.userId)).size
uniqueBiddersOf(list) == Cardinality({list[i].userId : i \in 1..Len(list)})

\* Math.abs
abs(x) == IF x < 0 THEN 0 - x ELSE x

\* OrderBook: const spread
spreadOf(buys, sells) ==
    IF Len(buys) > 0 /\ Len(sells) > 0 THEN sells[1].amount - buys[1].amount ELSE 0

\* OrderBook, market spread indicator: rendered only when both sides have
\* orders, and then as formatCurrency(Math.abs(spread))
spreadShownOf(buys, sells) ==
    IF Len(buys) > 0 /\ Len(sells) > 0
    THEN [shown |-> TRUE, value |-> abs(spreadOf(buys, sells))]
    ELSE [shown |-> FALSE, value |-> 0]

\* OrderBook (part_003): what one render computes from its bids prop.  filter
\* returns a new array and sort is called on that array only, so the prop is
\* left as it was given.
OrderBookRender(list) ==
    LET buys  == buyBids(list)
        sells == sellBids(list)
    IN  [props |-> list,
         out   |-> [buyBids |-> buys, sellBids |-> sells,
                    totalBuyVolume |-> totalVolumeOf(buys),
                    totalSellVolume |-> totalVolumeOf(sells),
                    spread |-> spreadOf(buys, sells),
                    spreadShown |-> spreadShownOf(buys, sells)]]

\* TopBids: bids.filter(bid => bid.status !== 'cancelled')
notCancelled(list) == SelectSeq(list, LAMBDA b : b.status # "cancelled")

\* the comparator without its secondary key
rankedBefore_AmountOnly(a, b) == a.amount >= b.amount

\* TopBids comparator: amount descending, then timestamp ascending; TRUE when
\* a may stay in front of b
rankedBefore(a, b) ==
    IF b.amount # a.amount THEN a.amount > b.amount ELSE a.timestamp <= b.timestamp

RECURSIVE insertByRank(_, _)
insertByRank(x, s) ==
    IF s = <<>> THEN <<x>>
    ELSE IF rankedBefore(Head(s), x)
         THEN <<Head(s)>> \o insertByRank(x, Tail(s))
         ELSE <<x>> \o s

\* Array.prototype.sort with the TopBids comparator (stable)
RECURSIVE sortByRank(_)
sortByRank(s) ==
    IF s = <<>> THEN <<>>
    ELSE insertByRank(s[Len(s)], sortByRank(SubSeq(s, 1, Len(s) - 1)))

\* TopBids: const topBids
topBidsOf(list) == slice(sortByRank(notCancelled(list)), LeaderboardSize)

\* LeaderboardRow: volumePercentage = totalVolume > 0
\*   ? (bidQuantity / totalVolume) * 100 : 0, kept as the fraction it is
volumePercentage(b, totalVolume) ==
    IF totalVolume > 0 THEN [num |-> quantityOrOne(b) * 100, den |-> totalVolume]
    ELSE [num |-> 0, den |-> 1]

\* a TopBids that sorts the array it was given instead of a filtered copy
TopBidsRender_SortsProps(list) ==
    LET top == slice(notCancelled(sortByRank(list)), LeaderboardSize)
    IN  [props |-> sortByRank(list),
         out   |-> [topBids |-> top,
                    totalVolume |-> totalVolumeOf(top),
                    totalValue |-> totalValueOf(top),
                    uniqueBidders |-> uniqueBiddersOf(top),
                    shares |-> [i \in 1..Len(top) |->
                                  volumePercentage(top[i], totalVolumeOf(top))]]]

\* TopBids: what one render computes from its bids prop.  filter returns a
\* new array, which sort then orders in place; the prop is not touched.
TopBidsRender(list) ==
    LET top == topBidsOf(list)
    IN  [props |-> list,
         out   |-> [topBids |-> top,
                    totalVolume |-> totalVolumeOf(top),
                    totalValue |-> totalValueOf(top),
                    uniqueBidders |-> uniqueBiddersOf(top),
                    shares |-> [i \in 1..Len(top) |->
                                  volumePercentage(top[i], totalVolumeOf(top))]]]

\* OrderBook.tsx (the compact panel): five per side and five overall; the
\* overall list sorts the filtered array in place, after both sides were
\* taken from it
OrderBookPanelRender(list) ==
    LET active == activeBids(list)
    IN  [props |-> list,
         out   |-> [buyBids |-> slice(sortByAmountDesc(
                                   SelectSeq(active, LAMBDA b : b.type = "buy")),
                                   PanelDepth),
                    sellBids |-> slice(sortByAmountAsc(
                                   SelectSeq(active, LAMBDA b : b.type = "sell")),
                                   PanelDepth),
                    topBids |-> slice(sortByAmountDesc(active), PanelDepth)]]


\* ------------------------------------------------------------ the timer
\* no Timer is mounted (state.auction is null)
NoTimer ==
    [mounted |-> FALSE, endTime |-> 0, isActive |-> FALSE, timeRemaining |-> 0,
     isWarning |-> FALSE, isCritical |-> FALSE, at |-> 0, timeUps |-> 0]

\* Timer.updateTimer at Date.now() = t; `at` is that instant and `timeUps`
\* the calls of onTimeUp made for this endTime, counted up to MaxTimeUps
updateTimer(tm, t) ==
    LET remaining == Max(0, (tm.endTime - t) \div 1000)
    IN  [tm EXCEPT !.timeRemaining = remaining,
                   !.isWarning = remaining <= WarningSeconds /\ remaining > CriticalSeconds,
                   !.isCritical = remaining <= CriticalSeconds,
                   !.at = t,
                   !.timeUps = IF remaining = 0 /\ @ < MaxTimeUps THEN @ + 1 ELSE @]

\* Timer.getStatusText
getStatusText(tm) ==
    IF ~tm.isActive THEN "Auction Ended"
    ELSE IF tm.isCritical THEN "Final Minute!"
    ELSE IF tm.isWarning THEN "Ending Soon"
    ELSE "Active Auction"

\* a render of AppContent with auction a at time t: the Timer is there when
\* the auction is, endTime and isActive={isAuctionActive()} are its props
\* (BidForm gets the same isActive), and onTimeUp is a new function, so the
\* effect of the Timer runs again and calls updateTimer
TimerRender(tm, a, t) ==
    IF a = NoAuction THEN NoTimer
    ELSE updateTimer([tm EXCEPT !.mounted = TRUE,
                                !.endTime = a.endTime,
                                !.isActive = isAuctionActive(a, t),
                                !.timeUps = IF tm.mounted /\ tm.endTime = a.endTime
                                            THEN @ ELSE 0],
                     t)

\* a dispatch of the context renders AppContent again
AppContentRender == timer' = TimerRender(timer, auction', now')

\* ------------------------------------------------- the delivery service
Digits == {"0", "1", "2", "3", "4", "5", "6", "7", "8", "9"}

NoPhone == <<>>          \* formatPhoneNumber returning null

\* the environment sets nothing: no relay, no provider credentials
NoConfig == [useBackendApi |-> FALSE, credentials |-> FALSE, isConfigured |-> FALSE]

\* the constructor: isConfigured = useBackendApi && backendApiUrl, or the
\* provider's credentials
Configs ==
    {[useBackendApi |-> b, credentials |-> c, isConfigured |-> b \/ c] : b, c \in BOOLEAN}

\* what a transport may do: answer ok, answer with an error status, fail on
\* the network, answer with a body that is not JSON
Answers == {"ok", "httpError", "networkError", "badJson"}

NoResponse == [success |-> FALSE, messageId |-> "none", error |-> "none"]

NoCall ==
    [made |-> FALSE, phone |-> <<>>, relay |-> "none", direct |-> "none",
     to |-> NoPhone, response |-> NoResponse, attempts |-> <<>>]

\* formatPhoneNumber without the validation of the length
formatPhoneNumber_NoLengthCheck(phone) ==
    LET cleaned   == SelectSeq(phone, LAMBDA c : c \in Digits)
        formatted == IF Len(cleaned) = LocalDigits THEN <<"1">> \o cleaned ELSE cleaned
    IN  <<"whatsapp:+">> \o formatted

\* WhatsAppService.formatPhoneNumber, a phone number being the sequence of
\* its characters
formatPhoneNumber(phone) ==
    LET cleaned   == SelectSeq(phone, LAMBDA c : c \in Digits)
        formatted == IF Len(cleaned) = LocalDigits THEN <<"1">> \o cleaned ELSE cleaned
    IN  IF Len(formatted) < MinPhoneDigits \/ Len(formatted) > MaxPhoneDigits
        THEN NoPhone
        ELSE <<"whatsapp:+">> \o formatted

\* WhatsAppService.simulateMessage
simulateMessage(to) ==
    [response |-> [success |-> TRUE, messageId |-> "simulated", error |-> "none"],
     attempts |-> <<"simulation">>]

\* sendViaBackendAPI whose catch answers the failure instead of simulating
sendViaBackendAPI_NoFallback(to, answer) ==
    IF answer = "ok"
    THEN [response |-> [success |-> TRUE, messageId |-> "relay", error |-> "none"],
          attempts |-> <<"relay">>]
    ELSE [response |-> [success |-> FALSE, messageId |-> "none", error |-> answer],
          attempts |-> <<"relay">>]

\* WhatsAppService.sendViaBackendAPI: the relay, and in its catch the
\* simulation
sendViaBackendAPI(to, answer) ==
    IF answer = "ok"
    THEN [response |-> [success |-> TRUE, messageId |-> "relay", error |-> "none"],
          attempts |-> <<"relay">>]
    ELSE [response |-> simulateMessage(to).response,
          attempts |-> <<"relay">> \o simulateMessage(to).attempts]

\* WhatsAppService.sendTwilioMessage: the direct call of the provider, and
\* in its catch the simulation
sendTwilioMessage(to, answer) ==
    IF answer = "ok"
    THEN [response |-> [success |-> TRUE, messageId |-> "provider", error |-> "none"],
          attempts |-> <<"direct">>]
    ELSE [response |-> simulateMessage(to).response,
          attempts |-> <<"direct">> \o simulateMessage(to).attempts]

\* WhatsAppService.sendInvoice
sendInvoice(config, phone, relay, direct) ==
    LET formattedPhone == formatPhoneNumber(phone)
    IN  IF formattedPhone = NoPhone
        THEN [response |-> [success |-> FALSE, messageId |-> "none",
                            error |-> "Invalid phone number format"],
              attempts |-> <<>>]
        ELSE IF config.useBackendApi THEN sendViaBackendAPI(formattedPhone, relay)
        ELSE IF config.isConfigured THEN sendTwilioMessage(formattedPhone, direct)
        ELSE simulateMessage(formattedPhone)

\* ------------------------------------------------------------------ Init
\* initialState, an empty store, no handler running
Init ==
    /\ now = 0
    /\ user = NoUser
    /\ auction = NoAuction
    /\ currentPrice = InitialCurrentPrice
    /\ bids = <<>>
    /\ highestBid = NoBid
    /\ userProfitLoss = 0
    /\ invoiceModal = NoModal
    /\ storeBids = <<>>
    /\ userDocs = [u \in Users |-> NoDoc]
    /\ auctionDoc = [exists |-> FALSE, isActive |-> FALSE]
    /\ dispatched = <<>>
    /\ calls = [s \in Slots |-> IdleCall]
    /\ lastResult = NoResult
    /\ view = NoView
    /\ timer = NoTimer
    /\ whatsapp = [config |-> NoConfig, call |-> NoCall]

Free(s) == calls[s].pc = "idle"

\* a new invocation takes the first free slot
FirstFree(s) == Free(s) /\ \A r \in Slots : r < s => ~Free(r)

InFlightPlacements == Cardinality({s \in Slots : calls[s].op = "placeBid" /\ ~Free(s)})

\* ------------------------------------------------------------ the clock
AdvanceTime(t) ==
    /\ t > now
    /\ now' = t
    /\ lastResult' = NoResult
    /\ UNCHANGED <<clientVars, storeVars, dispatched, calls>>
    /\ UNCHANGED <<view, whatsapp>>
    /\ UNCHANGED timer

\* ------------------------------------------------ sign in and sign out
\* login / the onAuthStateChanged listener (SET_USER, UPDATE_PROFIT_LOSS,
\* createUserProfile) followed by the initializeAuction effect
Login(u, createOk) ==
    /\ user = NoUser
    /\ user' = u
    /\ userDocs' = IF ~userDocs[u].exists /\ createOk
                   THEN [userDocs EXCEPT ![u] = [exists |-> TRUE, profitLoss |-> 0,
                                                 activeBids |-> 0]]
                   ELSE userDocs
    /\ userProfitLoss' = IF userDocs[u].exists /\ userDocs[u].profitLoss # 0
                         THEN userDocs[u].profitLoss ELSE userProfitLoss
    /\ auction' = IF auction = NoAuction
                  THEN [id |-> "demo", endTime |-> now + AuctionDurationSec * 1000,
                        isActive |-> TRUE]
                  ELSE auction
    /\ currentPrice' = IF auction = NoAuction THEN InitialCurrentPrice ELSE currentPrice
    /\ lastResult' = NoResult
    /\ UNCHANGED <<now, bids, highestBid, invoiceModal, storeBids,
                   auctionDoc, dispatched, calls>>
    /\ UNCHANGED <<view, whatsapp>>
    /\ AppContentRender

\* logout: RESET_STATE
Logout ==
    /\ user # NoUser
    /\ user' = NoUser
    /\ auction' = NoAuction
    /\ currentPrice' = InitialCurrentPrice
    /\ bids' = <<>>
    /\ highestBid' = NoBid
    /\ userProfitLoss' = 0
    /\ invoiceModal' = NoModal
    /\ lastResult' = NoResult
    /\ UNCHANGED <<now, storeVars, dispatched, calls>>
    /\ UNCHANGED <<view, whatsapp>>
    /\ AppContentRender

\* ------------------------------------------------------ start and end
\* startAuction: createAuction (setDoc auctions/AAPL), SET_AUCTION, SET_STOCK
StartAuction(price, ok) ==
    /\ user # NoUser
    /\ IF ok
       THEN /\ auctionDoc' = [exists |-> TRUE, isActive |-> TRUE]
            /\ auction' = [id |-> "AAPL", endTime |-> now + AuctionDurationSec * 1000,
                           isActive |-> TRUE]
            /\ currentPrice' = price
       ELSE UNCHANGED <<auctionDoc, auction, currentPrice>>
    /\ lastResult' = NoResult
    /\ UNCHANGED <<now, user, bids, highestBid, userProfitLoss,
                   invoiceModal, storeBids, userDocs, dispatched, calls>>
    /\ UNCHANGED <<view, whatsapp>>
    /\ IF ok THEN AppContentRender ELSE UNCHANGED timer

\* endAuction: updateDoc(auctions/<id>) throws when the document is missing
\* (the demo auction is never written to the store); on success SET_AUCTION
EndAuction(ok) ==
    /\ auction # NoAuction
    /\ IF ok /\ auction.id = "AAPL" /\ auctionDoc.exists
       THEN /\ auctionDoc' = [auctionDoc EXCEPT !.isActive = FALSE]
            /\ auction' = [auction EXCEPT !.isActive = FALSE]
       ELSE UNCHANGED <<auctionDoc, auction>>
    /\ lastResult' = NoResult
    /\ UNCHANGED <<now, user, currentPrice, bids, highestBid, userProfitLoss,
                   invoiceModal, storeBids, userDocs, dispatched,
                   calls>>
    /\ UNCHANGED <<view, whatsapp>>
    /\ IF auction' # auction THEN AppContentRender ELSE UNCHANGED timer


\* ------------------------------------------------------------ placement
\* BidForm.handleSubmit (with the result of validateBid) and the synchronous
\* head of placeBid: the two guards, SET_ERROR, the values the closure
\* holds, and the call of firebaseService.addBid.
Submit(s, amount, type, quantity) ==
    /\ FirstFree(s)
    /\ user # NoUser
    /\ Len(dispatched) + InFlightPlacements < MaxBids
    /\ LET msg  == validateBid(amount, quantity, minBid(highestBid, currentPrice))
           call == [IdleCall EXCEPT !.op = "placeBid", !.uid = user, !.amount = amount,
                                    !.type = type, !.quantity = quantity,
                                    !.basePL = userProfitLoss, !.price = currentPrice]
       IN  IF msg # NoError
           THEN /\ lastResult' = Result("placeBid", "invalid", msg, user, NoId)
                /\ UNCHANGED calls
           ELSE IF ~isAuctionActive(auction, now)
           THEN /\ lastResult' = Result("placeBid", "rejected", MsgNotActive, user, NoId)
                /\ UNCHANGED calls
           ELSE /\ calls' = [calls EXCEPT ![s] = [call EXCEPT !.pc = "addBid"]]
                /\ lastResult' = NoResult
    /\ UNCHANGED <<now, user, auction, currentPrice, bids, highestBid, userProfitLoss,
                   invoiceModal, storeVars, dispatched>>
    /\ UNCHANGED <<view, whatsapp>>
    /\ IF calls' # calls THEN AppContentRender ELSE UNCHANGED timer

\* addBid resolves: addDoc, updateUserStats(userId, 'activeBids', 1), the
\* returned bid; then ADD_BID and the profit/loss of the bid
AddBidOk(s) ==
    /\ calls[s].op = "placeBid" /\ calls[s].pc = "addBid"
    /\ LET c  == calls[s]
           id == StoreId(Len(storeBids) + 1)
       IN  /\ storeBids' = Append(storeBids,
                                  [userId |-> c.uid, amount |-> c.amount, type |-> c.type,
                                   timestamp |-> now, status |-> "active"])
           /\ userDocs' = updateUserStats(userDocs, c.uid, 1)
           /\ bids' = ADD_BID(bids, [id |-> id, userId |-> c.uid, amount |-> c.amount,
                                     quantity |-> 0, type |-> c.type, timestamp |-> now,
                                     status |-> "active"])
           /\ calls' = [calls EXCEPT ![s] =
                          [c EXCEPT !.pc = "updatePL", !.bidId = id,
                                    !.profitLoss = profitLossOf(c.type, c.price, c.amount,
                                                                c.quantity)]]
    /\ lastResult' = NoResult
    /\ UNCHANGED <<now, user, auction, currentPrice, highestBid, userProfitLoss,
                   invoiceModal, auctionDoc, dispatched>>
    /\ UNCHANGED <<view, whatsapp>>
    /\ AppContentRender

\* addBid rejects with `Failed to place bid: <message>`: the catch of placeBid
AddBidFail(s, err) ==
    /\ calls[s].op = "placeBid" /\ calls[s].pc = "addBid"
    /\ LET c   == calls[s]
           msg == addBidError(err)
           pl  == profitLossOf(c.type, c.price, c.amount, c.quantity)
       IN  IF isPermissionError(msg)
           THEN /\ bids' = ADD_BID(bids, [id |-> LocalId(now), userId |-> c.uid,
                                          amount |-> c.amount, quantity |-> 0,
                                          type |-> c.type, timestamp |-> now,
                                          status |-> "active"])
                /\ userProfitLoss' = c.basePL + pl
                /\ calls' = [calls EXCEPT ![s] =
                               [c EXCEPT !.pc = "invoice", !.bidId = LocalId(now),
                                         !.profitLoss = pl, !.cause = msg]]
                /\ lastResult' = NoResult
           ELSE /\ calls' = [calls EXCEPT ![s] = IdleCall]
                /\ lastResult' = Result("placeBid", "error", msg, c.uid, NoId)
                /\ UNCHANGED <<bids, userProfitLoss>>
    /\ UNCHANGED <<now, user, auction, currentPrice, highestBid, invoiceModal, storeVars,
                   dispatched>>
    /\ UNCHANGED <<view, whatsapp>>
    /\ AppContentRender

\* placeBid without the inner try: a rejected updateUserProfitLoss reaches the
\* outer catch, which sets the error and rethrows
UpdateProfitLoss_Rethrow(s, ok) ==
    /\ calls[s].op = "placeBid" /\ calls[s].pc = "updatePL"
    /\ LET c == calls[s]
       IN  IF ok
           THEN /\ userDocs' = updateUserProfitLoss(userDocs, c.uid, c.profitLoss)
                /\ userProfitLoss' = c.basePL + c.profitLoss
                /\ calls' = [calls EXCEPT ![s] = [c EXCEPT !.pc = "invoice"]]
                /\ lastResult' = NoResult
           ELSE /\ calls' = [calls EXCEPT ![s] = IdleCall]
                /\ lastResult' = Result("placeBid", "error", MsgUnavailable, c.uid, c.bidId)
                /\ UNCHANGED <<userDocs, userProfitLoss>>
    /\ UNCHANGED <<now, user, auction, currentPrice, bids, highestBid,
                   invoiceModal, storeBids, auctionDoc, dispatched>>
    /\ UNCHANGED <<view, whatsapp>>
    /\ AppContentRender

\* updateUserProfitLoss resolves or rejects; UPDATE_PROFIT_LOSS only when it resolved
UpdateProfitLoss(s, ok) ==
    /\ calls[s].op = "placeBid" /\ calls[s].pc = "updatePL"
    /\ LET c == calls[s]
       IN  /\ IF ok
              THEN /\ userDocs' = updateUserProfitLoss(userDocs, c.uid, c.profitLoss)
                   /\ userProfitLoss' = c.basePL + c.profitLoss
              ELSE UNCHANGED <<userDocs, userProfitLoss>>
           /\ calls' = [calls EXCEPT ![s] = [c EXCEPT !.pc = "invoice"]]
    /\ lastResult' = NoResult
    /\ UNCHANGED <<now, user, auction, currentPrice, bids, highestBid,
                   invoiceModal, storeBids, auctionDoc, dispatched>>
    /\ UNCHANGED <<view, whatsapp>>
    /\ IF ok THEN AppContentRender ELSE UNCHANGED timer

\* sendWhatsAppInvoice letting a failed delivery fail the placement
SendInvoice_DeliveryDecides(s, delivery) ==
    /\ calls[s].op = "placeBid" /\ calls[s].pc = "invoice"
    /\ LET c == calls[s]
       IN  /\ dispatched' = Append(dispatched,
                     [bidId |-> c.bidId,
                      channel |-> IF phoneNumber(c.uid) # "" THEN "whatsapp" ELSE "modal"])
           /\ invoiceModal' = IF phoneNumber(c.uid) # "" THEN invoiceModal
                              ELSE SET_INVOICE_MODAL(invoiceModal, TRUE, c.bidId)
           /\ lastResult' = IF phoneNumber(c.uid) # "" /\ delivery # "sent"
                            THEN Result("placeBid", "error", MsgUnavailable, c.uid, c.bidId)
                            ELSE Result("placeBid", "success", NoError, c.uid, c.bidId)
           /\ calls' = [calls EXCEPT ![s] = IdleCall]
    /\ UNCHANGED <<now, user, auction, currentPrice, bids, highestBid, userProfitLoss,
                   storeVars>>
    /\ UNCHANGED <<view, whatsapp>>
    /\ AppContentRender

\* sendWhatsAppInvoice, the success toast and the return of placeBid; the
\* answer of the delivery service changes nothing but the toast shown
SendInvoice(s, delivery) ==
    /\ calls[s].op = "placeBid" /\ calls[s].pc = "invoice"
    /\ LET c == calls[s]
       IN  /\ IF phoneNumber(c.uid) # ""
              THEN /\ dispatched' = Append(dispatched, [bidId |-> c.bidId,
                                                        channel |-> "whatsapp"])
                   /\ UNCHANGED invoiceModal
                   /\ lastResult' = [Result("placeBid", "success", NoError, c.uid, c.bidId)
                                        EXCEPT !.delivery = delivery]
              ELSE /\ dispatched' = Append(dispatched, [bidId |-> c.bidId,
                                                        channel |-> "modal"])
                   /\ invoiceModal' = SET_INVOICE_MODAL(invoiceModal, TRUE, c.bidId)
                   /\ lastResult' = [Result("placeBid", "success", NoError, c.uid, c.bidId)
                                        EXCEPT !.delivery = "local"]
           /\ calls' = [calls EXCEPT ![s] = IdleCall]
    /\ UNCHANGED <<now, user, auction, currentPrice, bids, highestBid, userProfitLoss,
                   storeVars>>
    /\ UNCHANGED <<view, whatsapp>>
    /\ AppContentRender

\* --------------------------------------------------------- cancellation
\* ids a caller may pass to cancelBid: any bid of the store or of the client
CancelTargets ==
    {StoreId(n) : n \in 1..Len(storeBids)} \cup {bids[i].id : i \in 1..Len(bids)}

\* cancelBid of the context and of FirebaseService up to the checks on the
\* document read by getDoc; a failed check is rethrown to the caller
CancelBegin(s, bidId) ==
    /\ FirstFree(s)
    /\ user # NoUser
    /\ bidId \in CancelTargets
    /\ LET msg  == cancelChecks(storeBids, bidId, user)
           call == [IdleCall EXCEPT !.op = "cancelBid", !.uid = user, !.bidId = bidId]
       IN  IF msg # NoError
           THEN /\ lastResult' = Result("cancelBid", "rejected", msg, user, bidId)
                /\ UNCHANGED calls
           ELSE /\ calls' = [calls EXCEPT ![s] = [call EXCEPT !.pc = "cancelWrite"]]
                /\ lastResult' = NoResult
    /\ UNCHANGED <<now, clientVars, storeVars, dispatched>>
    /\ UNCHANGED <<view, whatsapp>>
    /\ UNCHANGED timer

\* updateDoc(bidRef, { status: 'cancelled' })
CancelWrite(s) ==
    /\ calls[s].op = "cancelBid" /\ calls[s].pc = "cancelWrite"
    /\ storeBids' = cancelWrite(storeBids, calls[s].bidId.n)
    /\ calls' = [calls EXCEPT ![s].pc = "cancelStats"]
    /\ lastResult' = NoResult
    /\ UNCHANGED <<now, clientVars, userDocs, auctionDoc, dispatched>>
    /\ UNCHANGED <<view, whatsapp>>
    /\ UNCHANGED timer

\* updateUserStats(userId, 'activeBids', -1), then UPDATE_BID in the context
CancelFinish(s) ==
    /\ calls[s].op = "cancelBid" /\ calls[s].pc = "cancelStats"
    /\ userDocs' = updateUserStats(userDocs, calls[s].uid, -1)
    /\ bids' = UPDATE_BID(bids, calls[s].bidId, "cancelled")
    /\ calls' = [calls EXCEPT ![s] = IdleCall]
    /\ lastResult' = Result("cancelBid", "success", NoError, calls[s].uid, calls[s].bidId)
    /\ UNCHANGED <<now, user, auction, currentPrice, highestBid, userProfitLoss,
                   invoiceModal, storeBids, auctionDoc, dispatched>>
    /\ UNCHANGED <<view, whatsapp>>
    /\ AppContentRender

\* ------------------------------------------------------------ rendering
\* a render of one of the bid panels from state.bids; `again` tells that the
\* panel rendered before this one was the same panel
Render(kind, r) ==
    /\ bids' = r.props
    /\ view' = [kind |-> kind, again |-> view.kind = kind, out |-> r.out]
    /\ lastResult' = NoResult
    /\ UNCHANGED <<now, user, auction, currentPrice, highestBid, userProfitLoss,
                   invoiceModal, storeVars, dispatched, calls, timer, whatsapp>>

RenderOrderBook == Render("orderBook", OrderBookRender(bids))

RenderTopBids == Render("topBids", TopBidsRender(bids))

RenderOrderBookPanel == Render("panel", OrderBookPanelRender(bids))

Rendering == RenderOrderBook \/ RenderTopBids \/ RenderOrderBookPanel

\* ------------------------------------------------------------ the timer
\* a tick of the Timer's interval: updateTimer
TimerTick ==
    /\ timer.mounted
    /\ (timer.endTime - now) \div 1000 > 0 \/ timer.timeUps < MaxTimeUps
    /\ timer' = updateTimer(timer, now)
    /\ lastResult' = NoResult
    /\ UNCHANGED <<now, clientVars, storeVars, dispatched, calls, view, whatsapp>>

\* ------------------------------------------------- the delivery service
\* whatsappService.sendInvoice(phone, invoice), the transports answering as
\* given
WhatsAppSendInvoice(phone, relay, direct) ==
    /\ LET r == sendInvoice(whatsapp.config, phone, relay, direct)
       IN  whatsapp' = [whatsapp EXCEPT !.call =
                           [made |-> TRUE, phone |-> phone, relay |-> relay,
                            direct |-> direct, to |-> formatPhoneNumber(phone),
                            response |-> r.response, attempts |-> r.attempts]]
    /\ lastResult' = NoResult
    /\ UNCHANGED <<now, clientVars, storeVars, dispatched, calls, view, timer>>

\* ------------------------------------------------------------------ Next
\* the numbers given to the service: numbers of 0 to 16 digits, bare, with a plus sign,
\* with separators
PhoneDigitCounts == {0, 9, 10, 11, 12, 15, 16}

digitsOf(n) == [i \in 1..n |-> IF i % 2 = 1 THEN "5" ELSE "1"]

Phones ==
    {digitsOf(n) : n \in PhoneDigitCounts}
    \cup {<<"+">> \o digitsOf(n) : n \in PhoneDigitCounts}
    \cup {[i \in 1..(2 * n) |-> IF i % 2 = 1 THEN "-" ELSE digitsOf(n)[i \div 2]]
            : n \in PhoneDigitCounts}

Delivery == \E phone \in Phones, relay, direct \in Answers :
                WhatsAppSendInvoice(phone, relay, direct)

Session ==
    \/ \E u \in Users, ok \in BOOLEAN : Login(u, ok)
    \/ Logout

Clock == \E t \in Instants : AdvanceTime(t)

AuctionControl ==
    \/ \E ok \in BOOLEAN : StartAuction(InitialCurrentPrice, ok)
    \/ \E ok \in BOOLEAN : EndAuction(ok)

Placement(S) ==
    \/ \E s \in S, o \in Orders : Submit(s, o[1], o[2], o[3])
    \/ \E s \in S : AddBidOk(s)
    \/ \E s \in S, e \in StoreErrors : AddBidFail(s, e)
    \/ \E s \in S, ok \in BOOLEAN : UpdateProfitLoss(s, ok)
    \/ \E s \in S, d \in Deliveries : SendInvoice(s, d)

Cancellation(S) ==
    \/ \E s \in S, id \in CancelTargets : CancelBegin(s, id)
    \/ \E s \in S : CancelWrite(s)
    \/ \E s \in S : CancelFinish(s)

\* every operation, any number of handlers in flight
Next ==
    \/ Session \/ Clock \/ AuctionControl \/ Placement(Slots) \/ Cancellation(Slots)
    \/ Rendering \/ TimerTick \/ Delivery

Spec == Init /\ [][Next]_vars

\* the bid ledger: sessions, placements one at a time and cancellations in
\* any interleaving, while the clock stands
NextLedger == Session \/ Placement({1}) \/ Cancellation(Slots)

SpecLedger == Init /\ [][NextLedger]_vars

\* the placement flow: sessions and placements in any interleaving
NextPlacement == Session \/ Placement(Slots)

SpecPlacement == Init /\ [][NextPlacement]_vars

\* the auction's life: the clock, start and end, and placements one at a time
NextAuction == Session \/ Clock \/ AuctionControl \/ Placement({1})

SpecAuction == Init /\ [][NextAuction]_vars

\* the bid panels as functions of the list they are given: the list is any
\* list the reducer can hold (newest first), and the panels render it
BookShapes ==
    [userId : Users, amount : {15100, 15199}, quantity : {0, 5},
     type : {"buy", "sell"}, status : {"unset", "active", "cancelled"},
     timestamp : Instants]

\* bids get their ids in the order they were made: the oldest is the first
withIds(f) ==
    [i \in 1..Len(f) |->
        [id |-> StoreId(Len(f) - i + 1), userId |-> f[i].userId,
         amount |-> f[i].amount, quantity |-> f[i].quantity, type |-> f[i].type,
         timestamp |-> f[i].timestamp, status |-> f[i].status]]

ShortInputs ==
    UNION {{f \in [1..n -> BookShapes] :
                \A i \in 1..(n - 1) : f[i].timestamp >= f[i + 1].timestamp}
           : n \in 0..MaxBook}

\* a list longer than every panel: twelve active buys among eighteen bids
LongInput(k) ==
    withIds([i \in 1..(LeaderboardSize + 3) |->
        [userId |-> 1 + (i % NumUsers),
         amount |-> 15100 + 33 * ((i * k) % 4),
         quantity |-> IF i % 2 = 0 THEN 5 ELSE 0,
         type |-> IF i % 3 = 0 THEN "sell" ELSE "buy",
         status |-> IF i % 9 = 0 THEN "cancelled"
                    ELSE IF i % 2 = 0 THEN "active" ELSE "unset",
         timestamp |-> IF i <= 9 THEN 300000 ELSE 0]])

BookInputs == {withIds(f) : f \in ShortInputs} \cup {LongInput(k) : k \in 1..LongKinds}

InitBook ==
    /\ bids \in BookInputs
    /\ now = 300000
    /\ user = 1
    /\ auction = [id |-> "demo", endTime |-> AuctionDurationSec * 1000, isActive |-> TRUE]
    /\ currentPrice = InitialCurrentPrice
    /\ highestBid = NoBid
    /\ userProfitLoss = 0
    /\ invoiceModal = NoModal
    /\ storeBids = <<>>
    /\ userDocs = [u \in Users |-> NoDoc]
    /\ auctionDoc = [exists |-> FALSE, isActive |-> FALSE]
    /\ dispatched = <<>>
    /\ calls = [s \in Slots |-> IdleCall]
    /\ lastResult = NoResult
    /\ view = NoView
    /\ timer = TimerRender(NoTimer, auction, now)
    /\ whatsapp = [config |-> NoConfig, call |-> NoCall]

NextBook == Rendering

SpecBook == InitBook /\ [][NextBook]_vars

\* what a user may type into the bid form that the form must turn down: no
\* price, a negative price, no shares, too many shares, a price above the
\* ceiling, an order above the notional ceiling
InvalidOrders ==
    { <<0, "buy", 10>>, <<-100, "sell", 10>>, <<15100, "buy", 0>>,
      <<15100, "sell", MaxQuantity + 1>>, <<MaxAmount + 100, "buy", 1>>,
      <<600000, "buy", MaxQuantity>> }

\* the bid form: sessions and placements one at a time, of orders the form
\* accepts and of orders it must turn down
NextForm ==
    \/ Session
    \/ Placement({1})
    \/ \E o \in InvalidOrders : Submit(1, o[1], o[2], o[3])

SpecForm == Init /\ [][NextForm]_vars

\* the timer: sessions, start and end, the clock and the ticks of the Timer
TimerInstants == {0, 200000, 240000, 300000, 301000}

NextTimer ==
    \/ Session
    \/ \E t \in TimerInstants : AdvanceTime(t)
    \/ AuctionControl
    \/ TimerTick

SpecTimer == Init /\ [][NextTimer]_vars

\* the delivery service under every configuration
InitDelivery ==
    /\ now = 0
    /\ user = NoUser
    /\ auction = NoAuction
    /\ currentPrice = InitialCurrentPrice
    /\ bids = <<>>
    /\ highestBid = NoBid
    /\ userProfitLoss = 0
    /\ invoiceModal = NoModal
    /\ storeBids = <<>>
    /\ userDocs = [u \in Users |-> NoDoc]
    /\ auctionDoc = [exists |-> FALSE, isActive |-> FALSE]
    /\ dispatched = <<>>
    /\ calls = [s \in Slots |-> IdleCall]
    /\ lastResult = NoResult
    /\ view = NoView
    /\ timer = NoTimer
    /\ whatsapp \in [config : Configs, call : {NoCall}]

NextDelivery == Delivery

SpecDelivery == InitDelivery /\ [][NextDelivery]_vars

\* ================================================================ claims

\* C1: a placement is rejected when its amount is below the highest active
\* bid amount plus the minimum increment: every placement the form lets
\* through to placeBid is at least every active bid's amount plus the
\* increment, and at least currentPrice plus the increment when no bid exists.
C1_FloorAboveHighestActiveBid ==
    [][\A s \in Slots :
          (calls[s].pc = "idle" /\ calls'[s].op = "placeBid" /\ calls'[s].pc = "addBid")
          => /\ \A i \in 1..Len(activeBids(bids)) :
                   calls'[s].amount >= activeBids(bids)[i].amount + MinIncrement
             /\ bids = <<>> => calls'[s].amount >= currentPrice + MinIncrement]_vars

\* C2: a cancellation succeeds only for a bid whose status is active at the
\* moment it is marked; on success the bid is cancelled in the store and in
\* the client's list and the owner's active-bid counter goes down by exactly
\* one; a rejected cancellation changes nothing.
C2_CancelContract ==
    [][/\ \A s \in Slots :
            (calls[s].op = "cancelBid" /\ calls[s].pc = "cancelWrite"
             /\ calls'[s].pc = "cancelStats")
            => storeBids[calls[s].bidId.n].status = "active"
       /\ \A s \in Slots :
            (calls[s].op = "cancelBid" /\ calls[s].pc = "cancelStats"
             /\ calls'[s].pc = "idle")
            => /\ storeBids'[calls[s].bidId.n].status = "cancelled"
               /\ storeBids'[calls[s].bidId.n].userId = calls[s].uid
               /\ \A i \in 1..Len(bids') :
                     bids'[i].id = calls[s].bidId => bids'[i].status = "cancelled"
               /\ userDocs'[calls[s].uid].activeBids
                     = userDocs[calls[s].uid].activeBids - 1
       /\ (lastResult'.op = "cancelBid" /\ lastResult'.outcome = "rejected")
            => UNCHANGED <<storeBids, userDocs, bids, calls>>]_vars

\* C3: a cancellation requested by a user who does not own the bid, whatever
\* the bid's status, never gets past the checks: it is rejected with the
\* not-owner message, no call stays in flight to try again, and the store,
\* the counters and the client's bid list are as they were.
C3_NonOwnerCancelRejected ==
    [][/\ \A s \in Slots :
            (calls[s].pc = "idle" /\ calls'[s].op = "cancelBid")
            => storeBids[calls'[s].bidId.n].userId = calls'[s].uid
       /\ (/\ lastResult'.op = "cancelBid"
           /\ lastResult'.bidId.kind = "doc"
           /\ lastResult'.bidId.n \in 1..Len(storeBids)
           /\ storeBids[lastResult'.bidId.n].userId # lastResult'.uid)
            => /\ lastResult'.outcome = "rejected"
               /\ lastResult'.error = MsgNotOwner
               /\ UNCHANGED <<storeBids, userDocs, bids, calls>>]_vars

\* C3 witness: user 2 has just asked to cancel a bid of user 1 that was
\* already cancelled, and was refused as not being its owner.
C3_Witness ==
    /\ lastResult.op = "cancelBid" /\ lastResult.outcome = "rejected"
    /\ lastResult.error = MsgNotOwner
    /\ lastResult.bidId.kind = "doc"
    /\ lastResult.uid # storeBids[lastResult.bidId.n].userId
    /\ storeBids[lastResult.bidId.n].status = "cancelled"

\* C4: a bid whose status is cancelled is absent from the buy and sell
\* rankings computed from what the bid stream delivers for the present store,
\* and is still delivered, with status cancelled, in the full history.
C4_CancelledStaysOut ==
    \A n \in 1..Len(storeBids) :
        storeBids[n].status = "cancelled"
        => /\ \A i \in 1..Len(buyBids(streamBids)) :
                 buyBids(streamBids)[i].id # StoreId(n)
           /\ \A i \in 1..Len(sellBids(streamBids)) :
                 sellBids(streamBids)[i].id # StoreId(n)
           /\ \E i \in 1..Len(streamBids) :
                 /\ streamBids[i].id = StoreId(n)
                 /\ streamBids[i].status = "cancelled"

\* C5: a bid's status only ever goes from active to cancelled or executed:
\* in the store and in the client's list no step takes a bid back to active,
\* unsets its status or changes a status that is no longer active; and no
\* bid of the store is ever deleted.
C5_StatusOnlyLeavesActive ==
    [][/\ Len(storeBids') >= Len(storeBids)
       /\ \A n \in 1..Len(storeBids) :
            /\ storeBids'[n].userId = storeBids[n].userId
            /\ \/ storeBids'[n].status = storeBids[n].status
               \/ /\ storeBids[n].status = "active"
                  /\ storeBids'[n].status \in {"cancelled", "executed"}
       /\ \A i \in 1..Len(bids), j \in 1..Len(bids') :
            bids[i].id = bids'[j].id
            => \/ bids'[j].status = bids[i].status
               \/ /\ bids[i].status = "active"
                  /\ bids'[j].status \in {"cancelled", "executed"}]_vars

\* C5 witness: a bid has been cancelled, in the store and in the client's
\* list, and another bid has been placed after it.
C5_Witness ==
    /\ Len(storeBids) = 2
    /\ storeBids[1].status = "cancelled"
    /\ \E i \in 1..Len(bids) : bids[i].id = StoreId(1) /\ bids[i].status = "cancelled"

\* C6: once the time is at or past the auction's end time, or the auction
\* has been ended, the auction is not active and no placement is taken up:
\* a placement attempt is rejected as "Auction is not active" and leaves the
\* bids, the store, the profit/loss, the invoices and the calls untouched.
C6_NoPlacementAfterEnd ==
    [][(auction = NoAuction \/ ~auction.isActive \/ now >= auction.endTime)
       => /\ ~isAuctionActive(auction, now)
          /\ \A s \in Slots : ~(calls[s].pc = "idle" /\ calls'[s].op = "placeBid")
          /\ (lastResult'.op = "placeBid" /\ lastResult'.outcome = "rejected")
               => /\ lastResult'.error = MsgNotActive
                  /\ UNCHANGED <<bids, storeBids, userDocs, userProfitLoss,
                                 dispatched, invoiceModal, calls>>]_vars

\* C6 witness: the end time of a running auction has been reached and a
\* placement attempt has just been rejected as "Auction is not active".
C6_Witness ==
    /\ auction # NoAuction /\ auction.isActive /\ now >= auction.endTime
    /\ lastResult = Result("placeBid", "rejected", MsgNotActive, user, NoId)

C8_NoDeltaLost ==
    [][\A s \in Slots :
          (/\ calls[s].op = "placeBid" /\ calls'[s].pc = "invoice"
           /\ \/ calls[s].pc = "addBid"
              \/ calls[s].pc = "updatePL" /\ userDocs' # userDocs)
          => userProfitLoss' = userProfitLoss + calls'[s].profitLoss]_vars

\* C9: when the insert fails with a permission error the placement goes on
\* without the store: exactly one bid with a locally generated id and status
\* active joins the client's list, the cumulative profit/loss becomes the
\* value the call started from plus the bid's profit/loss by the formula,
\* the store is not written, the invoice is dispatched and the placement
\* reports success; a permission error never aborts a placement.
C9_DegradedPlacement ==
    [][/\ \A s \in Slots :
            (calls[s].op = "placeBid" /\ calls[s].pc = "addBid"
             /\ calls'[s].pc = "invoice")
            => /\ calls'[s].bidId = LocalId(now)
               /\ \E i \in 1..Len(bids') :
                     /\ bids'[i].id = LocalId(now)
                     /\ bids'[i].status = "active"
                     /\ bids'[i].userId = calls[s].uid
                     /\ bids'[i].amount = calls[s].amount
                     /\ bids'[i].type = calls[s].type
                     /\ SubSeq(bids', 1, i - 1) \o SubSeq(bids', i + 1, Len(bids')) = bids
               /\ userProfitLoss' = calls[s].basePL +
                     (IF calls[s].type = "buy"
                      THEN (currentPrice - calls[s].amount) * calls[s].quantity
                      ELSE (calls[s].amount - currentPrice) * calls[s].quantity)
               /\ UNCHANGED <<storeBids, userDocs>>
       /\ \A s \in Slots :
            (calls[s].op = "placeBid" /\ calls[s].pc = "invoice"
             /\ calls[s].bidId.kind = "local" /\ calls'[s] # calls[s])
            => /\ Len(dispatched') = Len(dispatched) + 1
               /\ dispatched'[Len(dispatched')].bidId = calls[s].bidId
               /\ lastResult'.op = "placeBid" /\ lastResult'.outcome = "success"
               /\ lastResult'.bidId = calls[s].bidId
               /\ UNCHANGED <<storeBids, userDocs, bids, userProfitLoss>>
       /\ (lastResult'.op = "placeBid" /\ lastResult'.outcome = "error")
            => ~includes(lastResult'.error, "permissions")]_vars

\* C9 witness: a placement has just reported success for a bid with a local
\* id that is active in the client's list and has its invoice dispatched,
\* while the store holds no bid.
C9_Witness ==
    /\ lastResult.op = "placeBid" /\ lastResult.outcome = "success"
    /\ lastResult.bidId.kind = "local"
    /\ \E i \in 1..Len(bids) : bids[i].id = lastResult.bidId /\ bids[i].status = "active"
    /\ dispatched # <<>> /\ dispatched[Len(dispatched)].bidId = lastResult.bidId
    /\ storeBids = <<>>

\* C10: when the insert fails with any other error the placement is over:
\* the error is handed to the caller, no bid is recorded in the client's list
\* or the store, the cumulative profit/loss is unchanged and no invoice is
\* dispatched; the degraded path is entered for permission errors only.
C10_FailedInsertAborts ==
    [][/\ (lastResult'.op = "placeBid" /\ lastResult'.outcome = "error")
            => /\ lastResult'.error # NoError
               /\ \E s \in Slots : calls[s].pc = "addBid" /\ calls'[s] = IdleCall
               /\ \A s \in Slots : calls'[s] = calls[s] \/ calls'[s] = IdleCall
               /\ UNCHANGED <<bids, userProfitLoss, storeBids, userDocs,
                              dispatched, invoiceModal>>
       /\ \A s \in Slots :
            (calls'[s].op = "placeBid" /\ calls'[s].bidId.kind = "local")
            => includes(calls'[s].cause, "permissions")]_vars

\* C10 witness: with one bid already recorded, an insert has just failed
\* because the store was unavailable and the error was handed to the caller.
C10_Witness ==
    /\ lastResult.op = "placeBid" /\ lastResult.outcome = "error"
    /\ lastResult.error = addBidError(MsgUnavailable)
    /\ Len(bids) = 1 /\ Len(dispatched) = 1

\* C11: when the bid was inserted and the update of the user's profit/loss
\* in the store fails, the placement goes on to the invoice: the bid stays in
\* the store and in the client's list, no error is handed to the caller, and
\* the placement of a stored bid ends by dispatching its invoice and
\* reporting success.
C11_ProfitLossUpdateBestEffort ==
    [][/\ \A s \in Slots :
            (calls[s].op = "placeBid" /\ calls[s].pc = "updatePL"
             /\ calls'[s] # calls[s] /\ userDocs' = userDocs)
            => /\ calls'[s] = [calls[s] EXCEPT !.pc = "invoice"]
               /\ calls[s].bidId.kind = "doc"
               /\ calls[s].bidId.n \in 1..Len(storeBids)
               /\ storeBids[calls[s].bidId.n].status = "active"
               /\ UNCHANGED <<storeBids, bids, dispatched>>
               /\ lastResult' = NoResult
       /\ \A s \in Slots :
            (calls[s].op = "placeBid" /\ calls[s].pc = "invoice"
             /\ calls[s].bidId.kind = "doc" /\ calls'[s] # calls[s])
            => /\ lastResult'.op = "placeBid" /\ lastResult'.outcome = "success"
               /\ lastResult'.bidId = calls[s].bidId
               /\ Len(dispatched') = Len(dispatched) + 1
               /\ dispatched'[Len(dispatched')].bidId = calls[s].bidId
               /\ UNCHANGED <<storeBids, bids>>]_vars

\* C11 witness: the only placement made so far has reported success, its bid
\* is in the store and in the client's list and its invoice is dispatched,
\* while the profit/loss of the user's profile was never updated.
C11_Witness ==
    /\ \A s \in Slots : calls[s].pc = "idle"
    /\ lastResult.op = "placeBid" /\ lastResult.outcome = "success"
    /\ lastResult.bidId = StoreId(1)
    /\ Len(storeBids) = 1 /\ storeBids[1].status = "active"
    /\ Len(dispatched) = 1 /\ dispatched[1].bidId = StoreId(1)
    /\ \E i \in 1..Len(bids) : bids[i].id = StoreId(1)
    /\ userDocs[lastResult.uid].exists
    /\ userDocs[lastResult.uid].profitLoss = 0

\* C12: every placement that has recorded a bid goes on to exactly one
\* invoice dispatch for that bid: a bid enters the client's list only in a
\* call that is then headed for the dispatch, such a call leaves only by
\* dispatching once for its bid, nothing else dispatches, and whatever the
\* delivery service answers the bid and the profit/loss are kept and the
\* placement reports success.
C12_OneDispatchPerRecordedBid ==
    [][/\ Len(bids') > Len(bids)
            => \E s \in Slots :
                  /\ calls[s].op = "placeBid" /\ calls[s].pc = "addBid"
                  /\ calls'[s].pc \in {"updatePL", "invoice"}
                  /\ \E i \in 1..Len(bids') : bids'[i].id = calls'[s].bidId
       /\ \A s \in Slots :
            (calls[s].op = "placeBid" /\ calls[s].pc = "updatePL"
             /\ calls'[s] # calls[s])
            => calls'[s].pc = "invoice" /\ calls'[s].bidId = calls[s].bidId
       /\ \A s \in Slots :
            (calls[s].op = "placeBid" /\ calls[s].pc = "invoice"
             /\ calls'[s] # calls[s])
            => /\ calls'[s] = IdleCall
               /\ dispatched' # dispatched
               /\ lastResult'.op = "placeBid" /\ lastResult'.outcome = "success"
               /\ lastResult'.bidId = calls[s].bidId
               /\ UNCHANGED <<bids, storeBids, userProfitLoss, userDocs>>
       /\ dispatched' # dispatched
            => /\ Len(dispatched') = Len(dispatched) + 1
               /\ SubSeq(dispatched', 1, Len(dispatched)) = dispatched
               /\ \E s \in Slots :
                     /\ calls[s].op = "placeBid" /\ calls[s].pc = "invoice"
                     /\ calls'[s] = IdleCall
                     /\ dispatched'[Len(dispatched')].bidId = calls[s].bidId]_vars

\* C12 witness: the delivery service has just answered with a failure and
\* the placement reported success all the same, with its bid active in the
\* client's list, its profit/loss applied and its one invoice dispatched.
C12_Witness ==
    /\ lastResult.op = "placeBid" /\ lastResult.outcome = "success"
    /\ lastResult.delivery = "failed"
    /\ \E i \in 1..Len(bids) : bids[i].id = lastResult.bidId /\ bids[i].status = "active"
    /\ userProfitLoss # 0
    /\ Len(dispatched) = 1 /\ dispatched[1].bidId = lastResult.bidId

\* C13: when the placing user has no registered phone number the invoice
\* dispatch makes no call to the delivery service: the dispatch is recorded
\* as local only, and the invoice modal is open on that bid's invoice.
C13_NoPhoneInvoiceIsLocal ==
    [][\A s \in Slots :
          (calls[s].op = "placeBid" /\ calls[s].pc = "invoice"
           /\ calls'[s] # calls[s] /\ phoneNumber(calls[s].uid) = "")
          => /\ Len(dispatched') = Len(dispatched) + 1
             /\ SubSeq(dispatched', 1, Len(dispatched)) = dispatched
             /\ dispatched'[Len(dispatched')] = [bidId |-> calls[s].bidId,
                                                 channel |-> "modal"]
             /\ lastResult'.delivery = "local"
             /\ invoiceModal' = [isOpen |-> TRUE, invoice |-> calls[s].bidId]]_vars

\* C13 witness: a user without a phone number has placed a second bid; no
\* dispatch went to the delivery service and the modal shows the second
\* bid's invoice.
C13_Witness ==
    /\ lastResult.op = "placeBid" /\ lastResult.outcome = "success"
    /\ phoneNumber(lastResult.uid) = ""
    /\ lastResult.delivery = "local"
    /\ Len(dispatched) = 2
    /\ \A i \in 1..Len(dispatched) : dispatched[i].channel = "modal"
    /\ dispatched[1].bidId # dispatched[2].bidId
    /\ invoiceModal = [isOpen |-> TRUE, invoice |-> dispatched[2].bidId]

\* C14: the buy ranking holds only active (or status-unset) buy bids, by
\* amount descending, and the sell ranking only active (or status-unset) sell
\* bids, by amount ascending; on both, bids of equal amount come earlier
\* timestamp first.
C14_RankingOrder ==
    view.kind = "orderBook"
    => LET b == view.out.buyBids
           a == view.out.sellBids
       IN  /\ \A i \in 1..Len(b) :
                 b[i].type = "buy" /\ b[i].status \in {"unset", "active"}
           /\ \A i \in 1..Len(a) :
                 a[i].type = "sell" /\ a[i].status \in {"unset", "active"}
           /\ \A i, j \in 1..Len(b) :
                 i < j => \/ b[i].amount > b[j].amount
                          \/ /\ b[i].amount = b[j].amount
                             /\ b[i].timestamp <= b[j].timestamp
           /\ \A i, j \in 1..Len(a) :
                 i < j => \/ a[i].amount < a[j].amount
                          \/ /\ a[i].amount = a[j].amount
                             /\ a[i].timestamp <= a[j].timestamp

\* C15: on an empty bid list the order book has empty rankings, zero volume
\* and no spread; when both sides have active bids the spread, as computed
\* and as shown, is the lowest active sell amount minus the highest active
\* buy amount, negative when the book is crossed; when a side is empty the
\* spread is 0 and not shown.
C15_SpreadSigned ==
    view.kind = "orderBook"
    => LET buys  == {bids[i].amount : i \in {j \in 1..Len(bids) :
                        bids[j].type = "buy"
                        /\ bids[j].status \in {"unset", "active"}}}
           sells == {bids[i].amount : i \in {j \in 1..Len(bids) :
                        bids[j].type = "sell"
                        /\ bids[j].status \in {"unset", "active"}}}
           o     == view.out
       IN  /\ bids = <<>>
                => /\ o.buyBids = <<>> /\ o.sellBids = <<>>
                   /\ o.totalBuyVolume = 0 /\ o.totalSellVolume = 0
           /\ (buys = {} \/ sells = {})
                => o.spread = 0 /\ ~o.spreadShown.shown
           /\ (buys # {} /\ sells # {})
                => \E lo \in sells, hi \in buys :
                      /\ \A x \in sells : lo <= x
                      /\ \A x \in buys : hi >= x
                      /\ o.spread = lo - hi
                      /\ o.spreadShown.shown
                      /\ o.spreadShown.value = lo - hi

\* C16: for a bid list of any size the statistics cover all its active bids:
\* the order book's buy and sell volumes add up to the quantity of all
\* active bids, its best buy and best sell are the highest active buy and
\* the lowest active sell; the leaderboard's total volume, total value and
\* number of bidders are those of all bids that are not cancelled.
C16_StatsOverAllActiveBids ==
    /\ view.kind = "orderBook"
         => /\ view.out.totalBuyVolume + view.out.totalSellVolume
                  = totalVolumeOf(activeBids(bids))
            /\ \A i \in 1..Len(activeBids(bids)) :
                  LET x == activeBids(bids)[i]
                  IN  /\ x.type = "buy" => view.out.buyBids[1].amount >= x.amount
                      /\ x.type = "sell" => view.out.sellBids[1].amount <= x.amount
    /\ view.kind = "topBids"
         => /\ view.out.totalVolume = totalVolumeOf(notCancelled(bids))
            /\ view.out.totalValue = totalValueOf(notCancelled(bids))
            /\ view.out.uniqueBidders = uniqueBiddersOf(notCancelled(bids))

C18_Leaderboard ==
    view.kind = "topBids"
    => LET t   == view.out.topBids
           src == notCancelled(bids)
       IN  /\ Len(t) = IF Len(src) < 15 THEN Len(src) ELSE 15
           /\ \A i \in 1..Len(t) :
                 /\ t[i].status # "cancelled"
                 /\ \E j \in 1..Len(bids) : bids[j] = t[i]
           /\ \A i, j \in 1..Len(t) : i # j => t[i].id # t[j].id
           /\ \A i, j \in 1..Len(t) :
                 i < j => \/ t[i].amount > t[j].amount
                          \/ /\ t[i].amount = t[j].amount
                             /\ t[i].timestamp <= t[j].timestamp
           /\ \A j \in 1..Len(src) :
                 (\A i \in 1..Len(t) : t[i].id # src[j].id)
                 => \/ t[Len(t)].amount > src[j].amount
                    \/ /\ t[Len(t)].amount = src[j].amount
                       /\ t[Len(t)].timestamp <= src[j].timestamp
           /\ Len(view.out.shares) = Len(t)
           /\ \A i \in 1..Len(t) :
                 /\ view.out.shares[i].den = totalVolumeOf(t)
                 /\ view.out.shares[i].den > 0
                 /\ view.out.shares[i].num = 100 * quantityOrOne(t[i])
           /\ view.out.totalVolume = totalVolumeOf(t)

\* C18 witness: a leaderboard of 15 entries cut from a longer list, with two
\* neighbours of equal amount in the order of their timestamps.
C18_Witness ==
    /\ view.kind = "topBids"
    /\ Len(notCancelled(bids)) > 15
    /\ Len(view.out.topBids) = 15
    /\ \E i \in 1..14 :
          /\ view.out.topBids[i].amount = view.out.topBids[i + 1].amount
          /\ view.out.topBids[i].timestamp < view.out.topBids[i + 1].timestamp

\* C19: a proposed bid whose amount is not positive or above 1,000,000,
\* whose quantity is outside 1..10,000 or whose amount times quantity is above
\* 50,000,000 is turned down with a reason and changes nothing: no placement
\* is ever in flight for such an order; and every bid the client holds has an
\* amount above 0 and a quantity above 0.
C19_ValidationContract ==
    [][/\ (lastResult'.op = "placeBid" /\ lastResult'.outcome = "invalid")
            => /\ lastResult'.error # NoError
               /\ UNCHANGED <<now, clientVars, storeVars, dispatched, calls>>
       /\ \A s \in Slots :
             calls'[s].op = "placeBid"
             => /\ calls'[s].amount > 0
                /\ calls'[s].amount <= MaxAmount
                /\ calls'[s].quantity >= 1
                /\ calls'[s].quantity <= MaxQuantity
                /\ ~exceedsTotal(calls'[s].amount, calls'[s].quantity)
       /\ \A i \in 1..Len(bids') :
             bids'[i].amount > 0 /\ bids'[i].quantity > 0]_vars

\* C20: the bids the client holds have pairwise distinct ids, whatever
\* normal and degraded placements were made, several degraded ones at the
\* same instant included, and the id of a local bid is never an id the
\* store issued.
C20_DistinctIds ==
    /\ \A i, j \in 1..Len(bids) : i # j => bids[i].id # bids[j].id
    /\ \A i \in 1..Len(bids) :
          bids[i].id.kind = "local"
          => \A n \in 1..Len(storeBids) : bids[i].id # StoreId(n)

\* C21: the state the Timer shows is a function of the time and the end
\* time alone: with r the whole seconds that remain, right after the Timer
\* has looked at the clock it shows normal when r > 300, warning when
\* 60 < r <= 300, critical when 0 < r <= 60 and Ended when r = 0; and for one
\* end time the state never moves back in the order normal, warning,
\* critical, Ended.
C21_TimerStateByTime ==
    [][LET rank(text) == CASE text = "Active Auction" -> 0
                           [] text = "Ending Soon" -> 1
                           [] text = "Final Minute!" -> 2
                           [] OTHER -> 3
           r == IF timer'.endTime - now' > 0 THEN (timer'.endTime - now') \div 1000 ELSE 0
       IN  /\ (timer'.mounted /\ timer'.at = now')
                => getStatusText(timer') =
                      IF r > 300 THEN "Active Auction"
                      ELSE IF r > 60 THEN "Ending Soon"
                      ELSE IF r > 0 THEN "Final Minute!"
                      ELSE "Auction Ended"
           /\ (timer.mounted /\ timer'.mounted /\ timer'.endTime = timer.endTime)
                => rank(getStatusText(timer')) >= rank(getStatusText(timer))]_vars

\* C22: for one end time onTimeUp is called exactly once: not at all while
\* the Timer counts time that remains, once when it counts zero, and never
\* again on a later tick or render.
C22_TimeUpOnce ==
    timer.mounted
    => /\ timer.timeRemaining > 0 => timer.timeUps = 0
       /\ timer.timeRemaining = 0 => timer.timeUps = 1

\* C27: once the time has reached the end time and the Timer has ticked at
\* that time, the Timer shows Ended and the bid form is disabled (the
\* isActive handed to both is false), whatever else did or did not happen.
C27_EndedWithinOneTick ==
    (timer.mounted /\ timer.at = now /\ now >= timer.endTime)
    => /\ getStatusText(timer) = "Auction Ended"
       /\ ~timer.isActive

\* C23: Ended is terminal for the session: once the auction of a signed-in
\* user is not active, by the time or by the end action, no step of that
\* session makes it active again and none takes up a placement.
C23_EndedIsTerminal ==
    [][(user # NoUser /\ user' = user /\ auction # NoAuction
        /\ ~isAuctionActive(auction, now))
       => /\ ~isAuctionActive(auction', now')
          /\ \A s \in Slots : ~(calls[s].pc = "idle" /\ calls'[s].op = "placeBid")]_vars

\* C26: of the cancel requests the owner makes for one active bid, in any
\* interleaving, exactly one succeeds: when a request succeeds no other
\* request for the same bid has passed the checks and is about to succeed
\* as well, so the owner's counter goes down once for the bid.
C26_OneCancelSucceeds ==
    [][\A s \in Slots :
          (calls[s].op = "cancelBid" /\ calls[s].pc = "cancelStats"
           /\ calls'[s].pc = "idle")
          => \A r \in Slots \ {s} :
                ~(/\ calls[r].op = "cancelBid"
                  /\ calls[r].bidId = calls[s].bidId
                  /\ calls[r].pc \in {"cancelWrite", "cancelStats"})]_vars

\* C28: every bid a placement records, on the normal and on the degraded
\* path, carries the quantity the caller gave, so that the quantity the
\* panels count for it is the quantity of its profit/loss and its invoice.
C28_BidCarriesQuantity ==
    [][\A s \in Slots :
          (calls[s].op = "placeBid" /\ calls[s].pc = "addBid"
           /\ calls'[s].pc \in {"updatePL", "invoice"})
          => \E i \in 1..Len(bids') :
                /\ bids'[i].id = calls'[s].bidId
                /\ bids'[i].quantity = calls[s].quantity
                /\ quantityOrOne(bids'[i]) = calls[s].quantity]_vars

\* C29: whenever no handler is in flight, each user's active-bid counter in
\* the store is the number of that user's bids whose status is active, and
\* it is never negative.
C29_CounterMatchesActiveBids ==
    /\ \A u \in Users : userDocs[u].activeBids >= 0
    /\ (\A s \in Slots : calls[s].pc = "idle")
         => \A u \in Users :
               userDocs[u].activeBids =
                  Cardinality({n \in 1..Len(storeBids) :
                                  storeBids[n].userId = u
                                  /\ storeBids[n].status = "active"})

\* C24: a delivery tries the relay, then the direct call of the provider,
\* then the simulation, in that order, each failure falling through to the
\* next: a failed relay is followed by the direct call, a failed direct call
\* by the simulation, and the simulation's success is what is returned.
C24_StrategiesFallThrough ==
    whatsapp.call.made
    => LET a == whatsapp.call.attempts
           rank(x) == CASE x = "relay" -> 1 [] x = "direct" -> 2 [] OTHER -> 3
       IN  /\ \A i, j \in 1..Len(a) : i < j => rank(a[i]) < rank(a[j])
           /\ \A i \in 1..Len(a) :
                 /\ (a[i] = "relay" /\ whatsapp.call.relay # "ok")
                       => i < Len(a) /\ a[i + 1] = "direct"
                 /\ (a[i] = "direct" /\ whatsapp.call.direct # "ok")
                       => i < Len(a) /\ a[i + 1] = "simulation"
           /\ (a # <<>> /\ a[Len(a)] = "simulation")
                 => /\ whatsapp.call.response.success
                    /\ whatsapp.call.response.messageId = "simulated"

\* C25: a phone number is normalised by dropping every character that is
\* not a digit and putting the destination marker in front; when the
\* normalised number has fewer than 10 or more than 15 digits the delivery
\* answers success = false with an error and tries no strategy at all.
C25_PhoneNormalised ==
    whatsapp.call.made
    => LET ph     == whatsapp.call.phone
           digits == {i \in 1..Len(ph) : ph[i] \in Digits}
           d      == Cardinality(digits)
           n      == IF d = 10 THEN 11 ELSE d
           to     == whatsapp.call.to
       IN  /\ (n < 10 \/ n > 15)
                => /\ ~whatsapp.call.response.success
                   /\ whatsapp.call.response.error # "none"
                   /\ whatsapp.call.attempts = <<>>
           /\ (n >= 10 /\ n <= 15)
                => /\ to[1] = "whatsapp:+"
                   /\ Len(to) = n + 1
                   /\ \A i \in 2..Len(to) : to[i] \in Digits
                   /\ SubSeq(to, Len(to) - d + 1, Len(to))
                         = SelectSeq(ph, LAMBDA c : c \in Digits)

\* C25 witness: a number of nine digits written with separators was given to
\* a service that has a relay, and it was refused without any attempt.
C25_Witness ==
    /\ whatsapp.call.made
    /\ whatsapp.config.useBackendApi
    /\ Len(whatsapp.call.phone) = 18
    /\ Cardinality({i \in 1..Len(whatsapp.call.phone) :
                       whatsapp.call.phone[i] \in Digits}) = 9
    /\ ~whatsapp.call.response.success
    /\ whatsapp.call.attempts = <<>>

\* C30: for a phone number that passes the normalisation sendInvoice answers
\* success = true under every configuration and whatever the relay or the
\* provider do; it answers success = false only for a number that does not
\* pass.
C30_TransportFailureHidden ==
    whatsapp.call.made
    => LET ph == whatsapp.call.phone
           d  == Cardinality({i \in 1..Len(ph) : ph[i] \in Digits})
           n  == IF d = 10 THEN 11 ELSE d
       IN  whatsapp.call.response.success <=> (n >= 10 /\ n <= 15)

\* C30 witness: for a valid number the relay failed on the network, the
\* simulation took over, and the answer was success.
C30_Witness ==
    /\ whatsapp.call.made
    /\ whatsapp.config.useBackendApi
    /\ whatsapp.call.relay = "networkError"
    /\ whatsapp.call.direct = "httpError"
    /\ whatsapp.call.to # NoPhone
    /\ whatsapp.call.attempts = <<"relay", "simulation">>
    /\ whatsapp.call.response.success

====
